---- MODULE Spec2Model ----
(***************************************************************************)
(* A model of ytscribe's main.py: the filename sanitizer, the video-id     *)
(* extractor and the batch loop of the `download` command.                 *)
(*                                                                         *)
(* A Python str is a sequence of one-character strings.  The external      *)
(* collaborators (yt-dlp, youtube_transcript_api, the filesystem) are      *)
(* modelled by the outcomes the code distinguishes: a value or a raised    *)
(* exception.  Console output is not modelled.                             *)
(***************************************************************************)
EXTENDS Integers, Sequences, FiniteSets, TLC

VARIABLES
    \* ---- a single call of a pure function (SpecSan, SpecExt) ----
    callPc,              \* "idle" | "ready" | "done"
    callArg,             \* the str passed to the function
    callRet,             \* what it returned
    \* ---- the `download` command (Spec) ----
    urls,                \* the positional arguments the for loop has not taken yet
    download_video_flag, \* -vid/--video
    username, password,  \* -username / -password (None when not given)
    pc,                  \* position in download()
    idx,                 \* how many arguments the for loop has taken
    total_success, total_failed,
    exit_code,           \* NoExit until the process ends
    cur,                 \* locals of the item being processed
    hist                 \* observations of the run (no effect on it)

vars == <<callPc, callArg, callRet, urls, download_video_flag, username,
          password, pc, idx, total_success, total_failed, exit_code, cur, hist>>

callVars == <<callPc, callArg, callRet>>
cmdVars  == <<urls, download_video_flag, username, password, pc, idx,
              total_success, total_failed, exit_code, cur, hist>>

-----------------------------------------------------------------------------
(* Bounds of the model *)

MaxAffix  == 2   \* characters before and after the filler of a sanitizer input
MaxTokens == 3   \* tokens a url given to the extractor is built from
MaxUrls   == 2   \* positional arguments of one run
MaxEntries == 2  \* entries a playlist lookup returns

-----------------------------------------------------------------------------
(* Strings *)

Rep(c, n) == [k \in 1..n |-> c]

RECURSIVE Concat(_)
Concat(ss) == IF ss = <<>> THEN <<>> ELSE Head(ss) \o Concat(Tail(ss))

SeqsUpTo(S, n) == UNION {[1..k -> S] : k \in 0..n}

\* s[p..] starts with lit
HasAt(s, p, lit) ==
    /\ p >= 1
    /\ p + Len(lit) - 1 <= Len(s)
    /\ SubSeq(s, p, p + Len(lit) - 1) = lit

\* Python's `lit in s`
Contains(s, lit) == \E p \in 1..Len(s) : HasAt(s, p, lit)

-----------------------------------------------------------------------------
(* sanitize_filename *)

MaxFilenameLen == 200

InvalidChars == {"<", ">", ":", "\"", "/", "\\", "|", "?", "*"}

StripChars == {".", " "}

Untitled == <<"u", "n", "t", "i", "t", "l", "e", "d">>

\* re.sub(invalid_chars, '_', filename)
ReSubInvalid(s) == [k \in 1..Len(s) |-> IF s[k] \in InvalidChars THEN "_" ELSE s[k]]

RECURSIVE LStrip(_, _)
LStrip(s, chars) ==
    IF s # <<>> /\ Head(s) \in chars THEN LStrip(Tail(s), chars) ELSE s

RECURSIVE RStrip(_, _)
RStrip(s, chars) ==
    IF s # <<>> /\ s[Len(s)] \in chars
    THEN RStrip(SubSeq(s, 1, Len(s) - 1), chars)
    ELSE s

\* str.strip(chars): drop the leading and the trailing run of chars
Strip(s, chars) == RStrip(LStrip(s, chars), chars)

\* sanitized[:200] if len(sanitized) > 200 else sanitized
Truncate(s) == IF Len(s) > MaxFilenameLen THEN SubSeq(s, 1, MaxFilenameLen) ELSE s

sanitize_filename(filename) ==
    LET substituted == ReSubInvalid(filename)
        stripped    == Strip(substituted, StripChars)
        sanitized   == IF stripped = <<>> THEN Untitled ELSE stripped
    IN  Truncate(sanitized)

-----------------------------------------------------------------------------
(* extract_video_id *)

IdLen == 11

Digits == {"0", "1", "2", "3", "4", "5", "6", "7", "8", "9"}
Upper  == {"A", "B", "C", "D", "E", "F", "G", "H", "I", "J", "K", "L", "M",
           "N", "O", "P", "Q", "R", "S", "T", "U", "V", "W", "X", "Y", "Z"}
Lower  == {"a", "b", "c", "d", "e", "f", "g", "h", "i", "j", "k", "l", "m",
           "n", "o", "p", "q", "r", "s", "t", "u", "v", "w", "x", "y", "z"}

\* the character class [0-9A-Za-z_-]
IdChars == Digits \cup Upper \cup Lower \cup {"_", "-"}

\* ([0-9A-Za-z_-]{11}) matches at position p
IdAt(s, p) ==
    /\ p >= 1
    /\ p + IdLen - 1 <= Len(s)
    /\ \A k \in p..(p + IdLen - 1) : s[k] \in IdChars

\* The four regular expressions, in the order of the list.  `alts` is the
\* non-capturing group before the capture (alternatives in the order written),
\* `anchored` says the expression is ^...$ .  The trailing .* of the first
\* expression matches the empty string and does not change the capture.
PatternsUnanchored ==
    << [alts |-> << <<"v", "=">>, <<"/">> >>, anchored |-> FALSE],
       [alts |-> << <<"e", "m", "b", "e", "d", "/">> >>, anchored |-> FALSE],
       [alts |-> << <<"v", "/">> >>, anchored |-> FALSE],
       [alts |-> << <<>> >>, anchored |-> FALSE] >>

patterns ==
    << [alts |-> << <<"v", "=">>, <<"/">> >>, anchored |-> FALSE],
       [alts |-> << <<"e", "m", "b", "e", "d", "/">> >>, anchored |-> FALSE],
       [alts |-> << <<"v", "/">> >>, anchored |-> FALSE],
       [alts |-> << <<>> >>, anchored |-> TRUE] >>

NoMatch == [matched |-> FALSE, group1 |-> <<>>]

\* alternative a of the pattern matches with its first character at p:
\* ^ matches at the start only; $ matches at the end, or before a newline
\* that ends the string
AltMatchesAt(pattern, url, p, a) ==
    /\ HasAt(url, p, pattern.alts[a])
    /\ IdAt(url, p + Len(pattern.alts[a]))
    /\ pattern.anchored =>
          /\ p = 1
          /\ \/ Len(url) = Len(pattern.alts[a]) + IdLen
             \/ /\ Len(url) = Len(pattern.alts[a]) + IdLen + 1
                /\ url[Len(url)] = "\n"

\* the alternatives are tried at p in the order written; group(1) is the capture
RECURSIVE MatchAt(_, _, _, _)
MatchAt(pattern, url, p, a) ==
    IF a > Len(pattern.alts) THEN NoMatch
    ELSE IF AltMatchesAt(pattern, url, p, a)
         THEN [matched |-> TRUE,
               group1  |-> SubSeq(url, p + Len(pattern.alts[a]),
                                  p + Len(pattern.alts[a]) + IdLen - 1)]
         ELSE MatchAt(pattern, url, p, a + 1)

\* the scan of re.search from position p on: the leftmost match wins
RECURSIVE SearchFrom(_, _, _)
SearchFrom(pattern, url, p) ==
    IF p > Len(url) THEN NoMatch
    ELSE IF MatchAt(pattern, url, p, 1).matched
         THEN MatchAt(pattern, url, p, 1)
         ELSE SearchFrom(pattern, url, p + 1)

\* re.search(pattern, url)
re_search(pattern, url) == SearchFrom(pattern, url, 1)

\* the for loop over patterns from the k-th on: the first pattern that
\* matches returns its group(1); raised = TRUE is the ValueError
RECURSIVE TryPatterns(_, _)
TryPatterns(url, k) ==
    IF k > Len(patterns) THEN [raised |-> TRUE, id |-> <<>>]
    ELSE IF re_search(patterns[k], url).matched
         THEN [raised |-> FALSE, id |-> re_search(patterns[k], url).group1]
         ELSE TryPatterns(url, k + 1)

extract_video_id(url) == TryPatterns(url, 1)

-----------------------------------------------------------------------------
(* The values of the variables a specification does not use *)

None   == "<None>"
NoExit == 0 - 1

NoItem == [kind |-> "none", url |-> <<>>, video_id |-> <<>>, entries |-> <<>>,
           entry_idx |-> 0, dest |-> [playlist |-> FALSE, name |-> <<>>],
           tallied |-> 0, attempted |-> <<>>, last_transcript |-> "none",
           last_video |-> "none",
           extract_called |-> FALSE, playlist_called |-> FALSE,
           errored |-> FALSE]

NoHist == [attempts_done |-> 0, item_errors |-> 0, playlist_items |-> 0,
           net_called |-> FALSE,
           video_steps |-> 0, tally_emitted |-> FALSE]

CmdIdle ==
    /\ urls = <<>>
    /\ download_video_flag = FALSE
    /\ username = None
    /\ password = None
    /\ pc = "idle"
    /\ idx = 0
    /\ total_success = 0
    /\ total_failed = 0
    /\ exit_code = NoExit
    /\ cur = NoItem
    /\ hist = NoHist

CallIdle ==
    /\ callPc = "idle"
    /\ callArg = <<>>
    /\ callRet = <<>>

-----------------------------------------------------------------------------
(* SpecSan: one call of sanitize_filename on a title *)

SanAlphabet == {"a", ".", " ", "?"}

\* the lengths of the run of "a" in the middle of an input: none, one, and
\* the lengths that bring the input to the truncation length and past it
FillLengths == {0, 1} \cup ((MaxFilenameLen - 3)..MaxFilenameLen)

SanInputs ==
    {h \o Rep("a", n) \o t : h \in SeqsUpTo(SanAlphabet, MaxAffix),
                             n \in FillLengths,
                             t \in SeqsUpTo(SanAlphabet, MaxAffix)}

InitSan ==
    /\ callPc = "ready"
    /\ callArg \in SanInputs
    /\ callRet = <<>>
    /\ CmdIdle

CallSanitize ==
    /\ callPc = "ready"
    /\ callRet' = sanitize_filename(callArg)
    /\ callPc' = "done"
    /\ UNCHANGED <<callArg, cmdVars>>

NextSan == CallSanitize

SpecSan == InitSan /\ [][NextSan]_vars

-----------------------------------------------------------------------------
(* SpecExt: one call of extract_video_id on a url *)

IdA     == Rep("a", IdLen)
IdQ     == <<"d", "Q", "w", "4", "w", "9", "W", "g", "X", "c", "Q">>
ShortId == Rep("b", IdLen - 1)

UrlTokens ==
    { <<"v", "=">>, <<"/">>, <<"e", "m", "b", "e", "d", "/">>, <<"v", "/">>,
      IdA, IdQ, ShortId, <<"x">>, <<".">>, <<"?">>, <<"\n">> }

ExtInputs == {Concat(ts) : ts \in SeqsUpTo(UrlTokens, MaxTokens)}

InitExt ==
    /\ callPc = "ready"
    /\ callArg \in ExtInputs
    /\ callRet = <<>>
    /\ CmdIdle

CallExtract ==
    /\ callPc = "ready"
    /\ callRet' = extract_video_id(callArg)
    /\ callPc' = "done"
    /\ UNCHANGED <<callArg, cmdVars>>

NextExt == CallExtract

SpecExt == InitExt /\ [][NextExt]_vars

-----------------------------------------------------------------------------
(* The external collaborators, as the code sees them *)

VideoTitle      == <<"Q", ":", " ", "a", ".">>
PlaylistTitle   == <<"M", "i", "x", "/", "1">>
UnknownPlaylist == <<"U", "n", "k", "n", "o", "w", "n", " ",
                     "P", "l", "a", "y", "l", "i", "s", "t">>
TranscriptSuffix == <<" ", "t", "r", "a", "n", "s", "c", "r", "i", "p", "t",
                      ".", "t", "x", "t">>

\* what ydl.extract_info gives for a video: it raises, or returns None or
\* a dict with its 'title'
VideoInfoOutcomes == {"raised", "none", "titled"}

\* get_video_info: the title, or the placeholder video_<id>
get_video_info(video_id, outcome) ==
    [title |-> IF outcome = "titled" THEN VideoTitle
               ELSE <<"v", "i", "d", "e", "o", "_">> \o video_id,
     id    |-> video_id]

\* an entry of a playlist as the provider returns it: a dict with an 'id',
\* or one without (or None)
BadEntryId == <<"P", "L", "1">>

EntryWithoutId == [has_id |-> FALSE, id |-> <<>>]

RawEntries == {[has_id |-> TRUE, id |-> IdA],
               [has_id |-> TRUE, id |-> BadEntryId]}

\* what ydl.extract_info gives for a playlist url
\* (it raises, returns None, an empty dict, or a dict with a title and
\* entries, some of them without an 'id')
PlaylistLookups ==
    {[result |-> r, has_title |-> FALSE, entries |-> <<>>] :
        r \in {"raised", "none", "info"}}
    \cup
    {[result |-> "info", has_title |-> TRUE, entries |-> es] :
        es \in SeqsUpTo(RawEntries, MaxEntries)
                \cup {<<EntryWithoutId>>,
                      <<[has_id |-> TRUE, id |-> IdA], EntryWithoutId>>}}

\* [entry['id'] for entry in ... if entry and 'id' in entry]
RECURSIVE EntryIds(_)
EntryIds(es) ==
    IF es = <<>> THEN <<>>
    ELSE IF Head(es).has_id THEN <<Head(es).id>> \o EntryIds(Tail(es))
         ELSE EntryIds(Tail(es))

\* get_playlist_info: title and ids, or the placeholder with no entries
get_playlist_info(lookup) ==
    IF lookup.result = "info"
    THEN [title   |-> IF lookup.has_title THEN PlaylistTitle ELSE UnknownPlaylist,
          entries |-> EntryIds(lookup.entries)]
    ELSE [title |-> UnknownPlaylist, entries |-> <<>>]

\* what happens inside download_transcript: the metadata lookup, then the
\* fetch of the transcript and the write of the file, either of which may raise
TranscriptOutcomes ==
    [info : VideoInfoOutcomes, rest : {"ok", "raised"}]

\* download_transcript: True once the file <title> transcript.txt is
\* written, or False (every exception is caught inside)
download_transcript(video_id, download_path, o) ==
    LET video_info == get_video_info(video_id, o.info)
        title      == sanitize_filename(video_info.title)
        filename   == title \o TranscriptSuffix
    IN  o.rest = "ok" /\ Len(filename) > 0

\* download_video: True or False (every exception is caught inside; the
\* title only names the file)
VideoOutcomes == [download_ok : BOOLEAN]

download_video(video_id, download_path, o) == o.download_ok

-----------------------------------------------------------------------------
(* The download command *)

CredentialsOneSided(u, p) == (u # None) /\ (p = None)

\* (username is None) != (password is None)
CredentialsMismatch(u, p) == (u = None) # (p = None)

PlaylistWord == <<"p", "l", "a", "y", "l", "i", "s", "t">>
ListParam    == <<"l", "i", "s", "t", "=">>

IsPlaylistUrlWordOnly(url) == Contains(url, PlaylistWord)

\* 'playlist' in url or 'list=' in url
IsPlaylistUrl(url) == Contains(url, PlaylistWord) \/ Contains(url, ListParam)

TallyTranscriptSuccessOnly(ok, t) ==
    IF ok THEN [success |-> t.success + 1, failed |-> t.failed] ELSE t

\* total_success += 1 / total_failed += 1 on the result of download_transcript
TallyAfterTranscript(ok, t) ==
    IF ok THEN [success |-> t.success + 1, failed |-> t.failed]
    ELSE [success |-> t.success, failed |-> t.failed + 1]

TallyCountsVideoFailure(ok, t) ==
    IF ok THEN t ELSE [success |-> t.success, failed |-> t.failed + 1]

\* the result of download_video: pass, or a note on the console
TallyAfterVideo(ok, t) == t

BreakAfterItemError(rest) == <<>>

\* the for loop over urls goes on with the rest after the except clause
RestAfterItemError(rest) == rest

MoreEntriesUnlessFailed(c, ok) ==
    ok /\ c.kind = "playlist" /\ c.entry_idx < Len(c.entries)

MoreEntriesButLast(c, ok) == c.kind = "playlist" /\ c.entry_idx < Len(c.entries) - 1

\* the for loop over playlist_info['entries'] has another entry, whatever
\* the results for this one
MoreEntries(c, ok) == c.kind = "playlist" /\ c.entry_idx < Len(c.entries)

Tally == [success |-> total_success, failed |-> total_failed]

SetTally(t) ==
    /\ total_success' = t.success
    /\ total_failed' = t.failed

\* what moving the counters from Tally to t adds to their sum
Added(t) == (t.success + t.failed) - (total_success + total_failed)

\* the loop variable url is bound to the next argument
NewItem(kind) == [NoItem EXCEPT !.kind = kind, !.url = Head(urls)]

\* the end of the for-loop body for an entry (or the single video)
AfterEntry(c, ok) ==
    IF MoreEntries(c, ok)
    THEN /\ cur' = [c EXCEPT !.entry_idx = @ + 1,
                             !.video_id = c.entries[c.entry_idx + 1]]
         /\ pc' = "transcript"
    ELSE /\ cur' = c
         /\ pc' = "loop"

\* except Exception as e: ... total_failed += 1
ItemError(c) ==
    /\ cur' = [c EXCEPT !.errored = TRUE, !.tallied = @ + 1]
    /\ SetTally([success |-> total_success, failed |-> total_failed + 1])
    /\ urls' = RestAfterItemError(Tail(urls))
    /\ pc' = "loop"

UrlWatch    == <<"w", "a", "t", "c", "h", "?", "v", "=">> \o IdQ
UrlInvalid  == <<"n", "o", "t", " ", "a", "n", " ", "i", "d">>
UrlPlaylist == <<"/", "p", "l", "a", "y", "l", "i", "s", "t", "?", "x">>
UrlWithList == UrlWatch \o <<"&", "l", "i", "s", "t", "=", "P", "L">>

UrlPool == {UrlWatch, UrlInvalid, UrlPlaylist, UrlWithList}

Init ==
    /\ CallIdle
    /\ urls \in {us \in SeqsUpTo(UrlPool, MaxUrls) : us # <<>>}
    /\ download_video_flag \in BOOLEAN
    /\ username \in {None, <<"a", "l", "i", "c", "e">>}
    /\ password \in {None, <<"p", "w">>}
    /\ pc = "start"
    /\ idx = 0
    /\ total_success = 0
    /\ total_failed = 0
    /\ exit_code = NoExit
    /\ cur = NoItem
    /\ hist = NoHist

\* the pairing check fails: raise typer.Exit(1)
ValidateReject ==
    /\ pc = "start"
    /\ CredentialsMismatch(username, password)
    /\ pc' = "exited"
    /\ exit_code' = 1
    /\ UNCHANGED <<callVars, urls, download_video_flag, username, password, idx,
                   total_success, total_failed, cur, hist>>

\* the pairing check passes: the download directory, the counters at 0
Startup ==
    /\ pc = "start"
    /\ ~CredentialsMismatch(username, password)
    /\ pc' = "loop"
    /\ total_success' = 0
    /\ total_failed' = 0
    /\ UNCHANGED <<callVars, urls, download_video_flag, username, password, idx,
                   exit_code, cur, hist>>

\* an input with a playlist marker: lookup, subdirectory, first entry
ProcessPlaylist ==
    /\ pc = "loop"
    /\ urls # <<>>
    /\ IsPlaylistUrl(Head(urls))
    /\ idx' = idx + 1
    /\ \E lookup \in PlaylistLookups, mkdir_ok \in BOOLEAN :
          LET playlist_info  == get_playlist_info(lookup)
              playlist_title == sanitize_filename(playlist_info.title)
              c == [NewItem("playlist") EXCEPT
                       !.playlist_called = TRUE,
                       !.entries = playlist_info.entries,
                       !.dest = [playlist |-> TRUE, name |-> playlist_title]]
          IN  IF ~mkdir_ok
              THEN /\ ItemError(c)
                   /\ hist' = [hist EXCEPT !.net_called = TRUE, !.item_errors = @ + 1,
                                           !.playlist_items = @ + 1]
              ELSE /\ AfterEntry(c, TRUE)
                   /\ urls' = Tail(urls)
                   /\ UNCHANGED <<total_success, total_failed>>
                   /\ hist' = [hist EXCEPT !.net_called = TRUE,
                                           !.playlist_items = @ + 1]
    /\ UNCHANGED <<callVars, download_video_flag, username, password, exit_code>>

\* any other input: the identifier, or the ValueError caught for the item
ProcessSingle ==
    /\ pc = "loop"
    /\ urls # <<>>
    /\ ~IsPlaylistUrl(Head(urls))
    /\ idx' = idx + 1
    /\ LET r == extract_video_id(Head(urls))
           c == [NewItem("single") EXCEPT !.extract_called = TRUE]
       IN  IF r.raised
           THEN /\ ItemError(c)
                /\ hist' = [hist EXCEPT !.item_errors = @ + 1]
           ELSE /\ cur' = [c EXCEPT !.video_id = r.id]
                /\ pc' = "transcript"
                /\ urls' = Tail(urls)
                /\ UNCHANGED <<total_success, total_failed, hist>>
    /\ UNCHANGED <<callVars, download_video_flag, username, password, exit_code>>

\* download_transcript for the current video, and the counter it moves
DownloadTranscript ==
    /\ pc = "transcript"
    /\ \E o \in TranscriptOutcomes :
          LET ok == download_transcript(cur.video_id, cur.dest, o)
              c  == [cur EXCEPT !.attempted = Append(@, cur.video_id),
                                !.tallied = @ + Added(TallyAfterTranscript(ok, Tally)),
                                !.last_transcript = IF ok THEN "ok" ELSE "failed",
                                !.last_video = "none"]
          IN  /\ SetTally(TallyAfterTranscript(ok, Tally))
              /\ hist' = [hist EXCEPT !.attempts_done = @ + 1, !.net_called = TRUE]
              /\ IF download_video_flag
                 THEN /\ cur' = c
                      /\ pc' = "video"
                 ELSE AfterEntry(c, ok)
    /\ UNCHANGED <<callVars, urls, download_video_flag, username, password, idx,
                   exit_code>>

\* download_video for the current video, with --video
DownloadVideo ==
    /\ pc = "video"
    /\ \E o \in VideoOutcomes :
          LET ok == download_video(cur.video_id, cur.dest, o)
          IN  /\ SetTally(TallyAfterVideo(ok, Tally))
              /\ hist' = [hist EXCEPT !.video_steps = @ + 1, !.net_called = TRUE]
              /\ AfterEntry([cur EXCEPT !.last_video = IF ok THEN "ok" ELSE "failed",
                                         !.tallied = @ + Added(TallyAfterVideo(ok, Tally))],
                            cur.last_transcript = "ok")
    /\ UNCHANGED <<callVars, urls, download_video_flag, username, password, idx,
                   exit_code>>

\* after the loop: the summary, and the command returns
Summary ==
    /\ pc = "loop"
    /\ urls = <<>>
    /\ pc' = "done"
    /\ exit_code' = 0
    /\ hist' = [hist EXCEPT !.tally_emitted = TRUE]
    /\ UNCHANGED <<callVars, urls, download_video_flag, username, password, idx,
                   total_success, total_failed, cur>>

Next ==
    \/ ValidateReject
    \/ Startup
    \/ ProcessPlaylist
    \/ ProcessSingle
    \/ DownloadTranscript
    \/ DownloadVideo
    \/ Summary

Spec == Init /\ [][Next]_vars

\* the command is one sequential thread: it takes its next step while it has one
FairSpec == Spec /\ WF_vars(Next)

-----------------------------------------------------------------------------
(* Claims about the pure functions *)

\* C1: for every input, sanitize_filename returns a string that is at most
\* 200 characters long, contains none of < > : " / \ | ? *, and neither
\* starts nor ends with '.' or a space -- also for inputs longer than 200
\* characters, where the truncation runs after the strip.
C1_SanitizedIsSafe ==
    callPc = "done" =>
        /\ Len(callRet) <= 200
        /\ \A k \in 1..Len(callRet) : callRet[k] \notin InvalidChars
        /\ callRet # <<>> =>
              /\ callRet[1] \notin {".", " "}
              /\ callRet[Len(callRet)] \notin {".", " "}

\* s occurs in url at position p
C2_Occurs(url, p, s) ==
    /\ p + Len(s) - 1 <= Len(url)
    /\ \A n \in 1..Len(s) : url[p + n - 1] = s[n]

\* the four forms of the claim, stated on the text of the url: `id` is
\* embedded in `url` in form k
C2_Embedded(k, url, id) ==
    /\ Len(id) = 11
    /\ \A n \in 1..11 : id[n] \in IdChars
    /\ CASE k = 1 -> \E p \in 1..Len(url) :
                        \/ C2_Occurs(url, p, <<"v", "=">> \o id)
                        \/ C2_Occurs(url, p, <<"/">> \o id)
         [] k = 2 -> \E p \in 1..Len(url) :
                        C2_Occurs(url, p, <<"e", "m", "b", "e", "d", "/">> \o id)
         [] k = 3 -> \E p \in 1..Len(url) :
                        C2_Occurs(url, p, <<"v", "/">> \o id)
         [] k = 4 -> url = id \/ url = id \o <<"\n">>

C2_Candidates(url) == {SubSeq(url, p, p + 10) : p \in 1..(Len(url) - 10)}

C2_Forms(url) == {k \in 1..4 : \E id \in C2_Candidates(url) : C2_Embedded(k, url, id)}

\* C2: the patterns are tried in the fixed order and the first that matches
\* wins: a url in one of the four forms yields an identifier embedded in it
\* in the first form it has, and a url in none of them raises ValueError.
C2_FirstFormWins ==
    callPc = "done" =>
        LET forms == C2_Forms(callArg)
        IN  IF forms = {}
            THEN callRet.raised
            ELSE /\ ~callRet.raised
                 /\ C2_Embedded(CHOOSE k \in forms : \A j \in forms : k <= j,
                                callArg, callRet.id)

\* a url in the embed form (and so in the path form too) has been resolved
C2_Witness ==
    /\ callPc = "done"
    /\ {1, 2} \subseteq C2_Forms(callArg)
    /\ callRet.raised = FALSE
    /\ callRet.id = IdQ

-----------------------------------------------------------------------------
(* Claims about the download command *)

\* an identifier of exactly 11 characters from [0-9A-Za-z_-]
WellFormedId(id) ==
    /\ Len(id) = 11
    /\ \A k \in 1..Len(id) : id[k] \in IdChars

\* the processing of the current item has ended
ItemEnded == pc \in {"loop", "done"} /\ cur.kind # "none"

\* C3: every video identifier a transcript attempt (or a video download) is
\* started for, from the extractor or from the entries of a playlist lookup,
\* is exactly 11 characters from [0-9A-Za-z_-]; an identifier that is not
\* ends as a per-item error with no transcript attempt.
C3_AttemptedIdsWellFormed ==
    /\ pc \in {"transcript", "video"} => WellFormedId(cur.video_id)
    /\ \A k \in 1..Len(cur.attempted) : WellFormedId(cur.attempted[k])

\* C4, as claimed: a playlist input whose lookup returns N entries gets
\* exactly N transcript attempts, one per entry in the returned order, and
\* adds exactly N to succeeded+failed (0 when the lookup failed).
C4_PlaylistAttemptsEveryEntry ==
    (ItemEnded /\ cur.kind = "playlist") =>
        /\ cur.attempted = cur.entries
        /\ cur.tallied = Len(cur.entries)

\* C4, amended: the same when the playlist's subdirectory is created; when
\* creating it raises, the item makes no transcript attempt and adds exactly
\* one failure.
C4_PlaylistAttemptsEveryEntryOrOneError ==
    cur.kind = "playlist" =>
        /\ Len(cur.attempted) <= Len(cur.entries)
        /\ \A k \in 1..Len(cur.attempted) : cur.attempted[k] = cur.entries[k]
        /\ pc \in {"transcript", "video"} =>
              /\ ~cur.errored
              /\ cur.video_id = cur.entries[cur.entry_idx]
              /\ Len(cur.attempted) = cur.entry_idx - (IF pc = "transcript" THEN 1 ELSE 0)
              /\ cur.tallied = Len(cur.attempted)
        /\ (ItemEnded /\ ~cur.errored) =>
              /\ cur.attempted = cur.entries
              /\ cur.tallied = Len(cur.entries)
        /\ cur.errored =>
              /\ ItemEnded
              /\ cur.attempted = <<>>
              /\ cur.tallied = 1

\* a playlist of two different entries has been processed to its end
C4_Witness ==
    /\ ItemEnded
    /\ cur.kind = "playlist"
    /\ ~cur.errored
    /\ Len(cur.entries) = 2
    /\ cur.entries[1] # cur.entries[2]
    /\ cur.attempted = cur.entries

C5_FailedTranscriptStep ==
    /\ pc = "transcript"
    /\ cur.kind = "playlist"
    /\ Len(cur'.attempted) = Len(cur.attempted) + 1
    /\ cur'.last_transcript = "failed"

C5_NextEntryStarted ==
    /\ pc' = "transcript"
    /\ cur'.entry_idx = cur.entry_idx + 1
    /\ cur'.video_id = cur.entries[cur.entry_idx + 1]

\* C5: when the transcript step fails for an entry of a playlist, failed
\* grows by exactly 1, succeeded is unchanged, and the loop goes on to the
\* next entry of the playlist (after the video step, with --video).
C5_FailedEntryCountsOnceAndLoopGoesOn ==
    [][ /\ C5_FailedTranscriptStep =>
            /\ total_failed' = total_failed + 1
            /\ total_success' = total_success
            /\ cur.entry_idx < Len(cur.entries) =>
                  \/ C5_NextEntryStarted
                  \/ download_video_flag /\ pc' = "video" /\ cur'.entry_idx = cur.entry_idx
        /\ ( /\ pc = "video"
             /\ cur.kind = "playlist"
             /\ cur.last_transcript = "failed"
             /\ cur.entry_idx < Len(cur.entries) ) => C5_NextEntryStarted
      ]_vars

\* the first entry of a playlist failed and the second was attempted
C5_Witness ==
    /\ cur.kind = "playlist"
    /\ idx = 1
    /\ Len(cur.attempted) = 2
    /\ total_failed = 1
    /\ total_success = 1
    /\ cur.last_transcript = "ok"

C6_Step ==
    \* the inputs are taken one at a time, in the order of the list
    /\ \/ urls' = urls
       \/ /\ urls # <<>>
          /\ urls' = Tail(urls)
          /\ cur'.url = Head(urls)
          /\ idx' = idx + 1
    \* an error that escapes an item is one failure, and the loop goes on
    /\ (idx' = idx + 1 /\ cur'.errored) =>
          /\ total_failed' = total_failed + 1
          /\ total_success' = total_success
          /\ pc' = "loop"
    \* the summary comes after the last input only
    /\ pc' = "done" => urls = <<>>
    /\ pc # "start" => exit_code' \in {NoExit, 0}

\* a bound on the steps the run still takes: the inputs not yet taken, each
\* with its lookup and two steps for every entry, and what is left of the
\* current item
C6_Measure ==
    LET perItem == 2 * MaxEntries + 4
        entriesLeft == IF cur.kind = "playlist"
                       THEN Len(cur.entries) - cur.entry_idx ELSE 0
    IN  Len(urls) * perItem
        + (CASE pc = "start" -> 2
             [] pc = "loop" -> 1
             [] pc = "transcript" -> 2 * entriesLeft + 3
             [] pc = "video" -> 2 * entriesLeft + 2
             [] OTHER -> 0)

C6_EventuallySummary ==
    (pc = "loop") ~> (pc = "done" /\ urls = <<>> /\ exit_code = 0 /\ hist.tally_emitted)

C7_PairingCheckedBeforeAnyWork ==
    IF (username = None) # (password = None)
    THEN /\ pc \in {"start", "exited"}
         /\ pc = "exited" <=> exit_code = 1
         /\ exit_code \in {NoExit, 1}
         /\ ~hist.net_called
         /\ ~hist.tally_emitted
         /\ idx = 0
         /\ cur = NoItem
         /\ hist = NoHist
    ELSE /\ pc # "exited"
         /\ exit_code # 1

\* the password was given without the username, and the process has exited
C7_Witness ==
    /\ username = None
    /\ password # None
    /\ pc = "exited"
    /\ exit_code = 1

\* C8: a video-download step never changes the tally, whether it succeeds
\* or fails, and the loop goes on after it; without --video no such step runs
\* (and with --video every transcript attempt is followed by one).
C8_VideoStepLeavesTally ==
    /\ [][pc = "video" =>
            /\ total_success' = total_success
            /\ total_failed' = total_failed
            /\ cur'.tallied = cur.tallied
            /\ cur'.last_video \in {"ok", "failed"}
            /\ pc' \in {"transcript", "loop"}]_vars
    /\ [](~download_video_flag => (pc # "video" /\ hist.video_steps = 0))
    /\ [](download_video_flag =>
            hist.video_steps + (IF pc = "video" THEN 1 ELSE 0) = hist.attempts_done)

\* a video download failed after its transcript succeeded, and nothing failed
C8_Witness ==
    /\ download_video_flag
    /\ cur.last_video = "failed"
    /\ total_success >= 1
    /\ total_failed = 0
    /\ pc = "loop"

\* the text of the claim: the input contains "playlist" or "list="
C9_HasMarker(url) ==
    \E p \in 1..Len(url) :
        \/ /\ p + 7 <= Len(url)
           /\ SubSeq(url, p, p + 7) = <<"p", "l", "a", "y", "l", "i", "s", "t">>
        \/ /\ p + 4 <= Len(url)
           /\ SubSeq(url, p, p + 4) = <<"l", "i", "s", "t", "=">>

\* C9: an input with "playlist" or "list=" takes the playlist path (lookup
\* called, extractor never called); any other input takes the single-video
\* path (extractor called, lookup never called) and, when an identifier is
\* extracted, gets exactly one transcript attempt, for that identifier, into
\* the base download directory.
C9_PathDecidedByText ==
    cur.kind # "none" =>
        IF C9_HasMarker(cur.url)
        THEN /\ cur.kind = "playlist"
             /\ cur.playlist_called
             /\ ~cur.extract_called
             /\ cur.dest.playlist
        ELSE /\ cur.kind = "single"
             /\ cur.extract_called
             /\ ~cur.playlist_called
             /\ ~cur.dest.playlist
             /\ cur.errored => cur.attempted = <<>>
             /\ ~cur.errored =>
                   /\ WellFormedId(cur.video_id)
                   /\ cur.video_id = extract_video_id(cur.url).id
                   /\ cur.attempted = IF pc = "transcript" THEN <<>> ELSE <<cur.video_id>>

\* a watch url has been processed on the single-video path
C9_Witness ==
    /\ cur.url = UrlWatch
    /\ ItemEnded
    /\ cur.attempted = <<IdQ>>

\* C10: succeeded and failed are never negative and never decrease, their sum
\* is the number of completed transcript attempts plus the number of inputs
\* that ended in an item-level error, each completed attempt moves exactly one
\* of the two by one, and a batch of single-video inputs ends with the sum
\* equal to the number of inputs.
C10_TallyAccounting ==
    /\ [] /\ total_success >= 0
          /\ total_failed >= 0
          /\ total_success + total_failed = hist.attempts_done + hist.item_errors
          /\ (pc = "done" /\ hist.playlist_items = 0) =>
                total_success + total_failed = idx
    /\ [][ /\ total_success' >= total_success
           /\ total_failed' >= total_failed
           /\ hist'.attempts_done = hist.attempts_done + 1 =>
                 \/ total_success' = total_success + 1 /\ total_failed' = total_failed
                 \/ total_success' = total_success /\ total_failed' = total_failed + 1
         ]_vars

\* two single-video inputs, one transcript saved and one failure
C10_Witness ==
    /\ pc = "done"
    /\ hist.playlist_items = 0
    /\ idx = 2
    /\ total_success = 1
    /\ total_failed = 1
    /\ hist.attempts_done = 2

====
